---------------------------- MODULE Spec2Model ----------------------------
(***************************************************************************)
(* A model of the numeric module arima_c.c (linear detrending, ARMA(1,1)   *)
(* estimation, ACF, PACF with AIC order selection) and of its memory       *)
(* primitives createMem / destroy.                                         *)
(*                                                                         *)
(* The C code computes in `float` (IEEE-754 binary32, round to nearest,    *)
(* ties to even).  The model computes the same way: a float is a record    *)
(*   [k |-> "fin" | "inf" | "nan", s |-> sign, m |-> mantissa, e |-> exp]  *)
(* whose finite value is (-1)^s * m * 2^e, kept canonical (m odd, or m = 0 *)
(* and e = 0), and every arithmetic operator rounds its exact result to    *)
(* 24 significant bits, with gradual underflow below 2^-126 and overflow   *)
(* to infinity at 2^128.                                                   *)
(***************************************************************************)
EXTENDS Integers, Sequences, FiniteSets, TLC

(***************************************************************************)
(* binary32 arithmetic                                                     *)
(***************************************************************************)
(* The operators pass every intermediate value on as a parameter of the    *)
(* next stage, so that each is computed once.                              *)
Pow2(k) == 2^k

BL4(x) == IF x < 4 THEN (IF x < 2 THEN x ELSE 2) ELSE (IF x < 8 THEN 3 ELSE 4)
RECURSIVE BitLen(_)
\* number of bits of x >= 0
BitLen(x) == IF x < 16 THEN BL4(x) ELSE 4 + BitLen(x \div 16)

TZ4(x) == IF x % 2 = 1 THEN 0 ELSE IF x % 4 = 2 THEN 1 ELSE IF x % 8 = 4 THEN 2 ELSE 3
RECURSIVE TrailZ(_)
\* number of trailing zero bits of x > 0
TrailZ(x) == IF x % 16 = 0 THEN 4 + TrailZ(x \div 16) ELSE TZ4(x)

NaN == [k |-> "nan", s |-> 0, m |-> 0, e |-> 0]
Inf(s) == [k |-> "inf", s |-> s, m |-> 0, e |-> 0]
Zero(s) == [k |-> "fin", s |-> s, m |-> 0, e |-> 0]

IsNaN(a) == a.k = "nan"
IsInf(a) == a.k = "inf"
IsFin(a) == a.k = "fin"
IsZero(a) == a.k = "fin" /\ a.m = 0

CanonT(s, m, e, t) == [k |-> "fin", s |-> s, m |-> m \div Pow2(t), e |-> e + t]
\* the finite float (-1)^s * m * 2^e in canonical form, m > 0 exact
Canon(s, m, e) == CanonT(s, m, e, TrailZ(m))

\* smallest exponent of a mantissa unit (2^-149) and the overflow threshold 2^128
EMin == 0 - 149
EOver == 64 + 64

\* the rounded mantissa m at exponent e: zero, overflow to infinity, or finite
RoundDone(s, m, e) ==
    IF m = 0 THEN Zero(s)
    ELSE IF BitLen(m) + e > EOver THEN Inf(s)
    ELSE Canon(s, m, e)

\* round to nearest, ties to even: q the kept bits, r the dropped bits, half the
\* weight of the first dropped bit
RoundUp(q, r, half, sticky) == r > half \/ (r = half /\ (sticky \/ q % 2 = 1))

RoundShift(s, X, E, sticky, sh) ==
    IF sh <= 0 THEN RoundDone(s, X, E)
    ELSE IF sh >= 31 THEN Zero(s)
    ELSE RoundDone(s,
                   (X \div Pow2(sh))
                     + (IF RoundUp(X \div Pow2(sh), X % Pow2(sh), Pow2(sh - 1), sticky)
                        THEN 1 ELSE 0),
                   E + sh)

\* the number of low bits to drop from an L-bit significand at exponent E:
\* down to 24 bits, and not below the exponent EMin
DropBits(L, E) == IF L - 24 > EMin - E THEN L - 24 ELSE EMin - E

\* The float nearest to (-1)^s * (X + f) * 2^E, 0 <= X < 2^30, where f = 0 when
\* sticky is FALSE and 0 < f < 1 otherwise (callers keep X at 26 bits or more
\* whenever sticky may be TRUE).
RoundPack(s, X, E, sticky) ==
    IF X = 0 THEN Zero(s) ELSE RoundShift(s, X, E, sticky, DropBits(BitLen(X), E))

\* (float) i for an int i, |i| < 2^30
IntToFloat(i) == RoundPack(IF i < 0 THEN 1 ELSE 0, IF i < 0 THEN 0 - i ELSE i, 0, FALSE)

\* the float (-1)^s * m * 2^e of a literal
Lit(s, m, e) == RoundPack(s, m, e, FALSE)

FNeg(a) == IF IsNaN(a) THEN a ELSE [a EXCEPT !.s = 1 - a.s]
FAbs(a) == IF IsNaN(a) THEN a ELSE [a EXCEPT !.s = 0]

\* a non-zero finite float with its mantissa scaled into [2^23, 2^24):
\* <<sign, mantissa, exponent>>
NormL(a, L) == <<a.s, a.m * Pow2(24 - L), a.e - (24 - L)>>
Norm(a) == NormL(a, BitLen(a.m))

\* hi + lo for normalised hi, lo with exponent difference d >= 0, hi scaled by
\* 2^g and lo cut by sh = d - g bits (li kept, st whether anything was cut)
AddSigned(hi, lo, g, li, st, X) ==
    IF hi[1] = lo[1] THEN RoundPack(hi[1], hi[2] * Pow2(g) + li, hi[3] - g, st)
    ELSE IF X = 0 /\ ~st THEN Zero(0)
    ELSE RoundPack(IF X < 0 THEN lo[1] ELSE hi[1], IF X < 0 THEN 0 - X ELSE X, hi[3] - g, st)

AddCut(hi, lo, g, li, st) ==
    AddSigned(hi, lo, g, li, st, hi[2] * Pow2(g) - li - (IF st THEN 1 ELSE 0))

AddAligned(hi, lo, g, sh) ==
    AddCut(hi, lo, g,
           IF sh = 0 THEN lo[2] ELSE IF sh >= 25 THEN 0 ELSE lo[2] \div Pow2(sh),
           IF sh = 0 THEN FALSE ELSE IF sh >= 25 THEN TRUE ELSE lo[2] % Pow2(sh) # 0)

AddOrdered(hi, lo, d) ==
    AddAligned(hi, lo, IF d < 5 THEN d ELSE 5, IF d < 5 THEN 0 ELSE d - 5)

AddNorm(na, nb) ==
    IF na[3] >= nb[3] THEN AddOrdered(na, nb, na[3] - nb[3])
    ELSE AddOrdered(nb, na, nb[3] - na[3])

\* a + b
FAdd(a, b) ==
    IF IsNaN(a) \/ IsNaN(b) THEN NaN
    ELSE IF IsInf(a) THEN (IF IsInf(b) /\ b.s # a.s THEN NaN ELSE a)
    ELSE IF IsInf(b) THEN b
    ELSE IF a.m = 0 /\ b.m = 0 THEN Zero(IF a.s = b.s THEN a.s ELSE 0)
    ELSE IF a.m = 0 THEN b
    ELSE IF b.m = 0 THEN a
    ELSE AddNorm(Norm(a), Norm(b))

\* a - b
FSub(a, b) == FAdd(a, FNeg(b))

\* the product Hi * 2^24 + lowr cut to its top 30 bits: c bits are dropped
MulCut(s, e, Hi, lowr, c) ==
    RoundPack(s, Hi * Pow2(24 - c) + (lowr \div Pow2(c)), e + c, lowr % Pow2(c) # 0)

MulHi(s, e, Hi, lowr, h) == MulCut(s, e, Hi, lowr, IF h > 6 THEN h - 6 ELSE 0)

MulLow(s, e, hh, mid, low) ==
    MulHi(s, e, hh + (mid \div 4096) + (low \div 16777216), low % 16777216,
          BitLen(hh + (mid \div 4096) + (low \div 16777216)))

MulMid(s, e, ah, al, bh, bl, mid) ==
    MulLow(s, e, ah * bh, mid, (mid % 4096) * 4096 + al * bl)

\* the product of two mantissas by 12-bit limbs
MulLimbs(s, e, ah, al, bh, bl) == MulMid(s, e, ah, al, bh, bl, ah * bl + al * bh)

MulFin(s, a, b) ==
    IF BitLen(a.m) + BitLen(b.m) <= 30
    THEN RoundPack(s, a.m * b.m, a.e + b.e, FALSE)
    ELSE MulLimbs(s, a.e + b.e, a.m \div 4096, a.m % 4096, b.m \div 4096, b.m % 4096)

\* a * b
FMul(a, b) ==
    IF IsNaN(a) \/ IsNaN(b) THEN NaN
    ELSE IF IsInf(a) \/ IsInf(b)
         THEN (IF IsZero(a) \/ IsZero(b) THEN NaN ELSE Inf(IF a.s = b.s THEN 0 ELSE 1))
    ELSE IF a.m = 0 \/ b.m = 0 THEN Zero(IF a.s = b.s THEN 0 ELSE 1)
    ELSE MulFin(IF a.s = b.s THEN 0 ELSE 1, a, b)

RECURSIVE DivSteps(_, _, _, _)
\* long division by nb, six bits at a time and two at the end: 26 bits in all
DivSteps(q, r, nb, left) ==
    IF left = 0 THEN <<q, r>>
    ELSE IF left >= 6 THEN DivSteps(q * 64 + ((r * 64) \div nb), (r * 64) % nb, nb, left - 6)
    ELSE DivSteps(q * 4 + ((r * 4) \div nb), (r * 4) % nb, nb, left - 2)

DivRound(s, e, qr) == RoundPack(s, qr[1], e, qr[2] # 0)

DivNorm(s, na, nb) ==
    DivRound(s, na[3] - nb[3] - 26, DivSteps(na[2] \div nb[2], na[2] % nb[2], nb[2], 26))

DivFin(s, a, b) ==
    IF b.m = 1 THEN RoundPack(s, a.m, a.e - b.e, FALSE) ELSE DivNorm(s, Norm(a), Norm(b))

\* a / b
FDiv(a, b) ==
    IF IsNaN(a) \/ IsNaN(b) THEN NaN
    ELSE IF IsInf(a) THEN (IF IsInf(b) THEN NaN ELSE Inf(IF a.s = b.s THEN 0 ELSE 1))
    ELSE IF IsInf(b) THEN Zero(IF a.s = b.s THEN 0 ELSE 1)
    ELSE IF b.m = 0 THEN (IF a.m = 0 THEN NaN ELSE Inf(IF a.s = b.s THEN 0 ELSE 1))
    ELSE IF a.m = 0 THEN Zero(IF a.s = b.s THEN 0 ELSE 1)
    ELSE DivFin(IF a.s = b.s THEN 0 ELSE 1, a, b)

IsNegative(d) == ~IsNaN(d) /\ d.s = 1 /\ ~IsZero(d)
\* a < b, a == b and a <= b as C compares floats (every comparison with NaN is false)
FLess(a, b) == ~IsNaN(a) /\ ~IsNaN(b) /\ IsNegative(FSub(a, b))
FEq(a, b) == ~IsNaN(a) /\ ~IsNaN(b) /\ ((IsZero(a) /\ IsZero(b)) \/ a = b)
FLeq(a, b) == ~IsNaN(a) /\ ~IsNaN(b) /\ ~IsNegative(FSub(b, a)) /\ ~IsNaN(FSub(b, a))

RECURSIVE SqrtBits(_, _, _, _)
\* digit-by-digit square root of the 26-bit radicand x followed by 28 zero bits:
\* step j brings down the next two bits; root and rem are those of the bits so far
SqrtBits(x, j, root, rem) ==
    IF j = 27 THEN <<root, rem>>
    ELSE IF rem * 4 + (IF j < 13 THEN (x \div Pow2(24 - 2 * j)) % 4 ELSE 0) >= root * 4 + 1
    THEN SqrtBits(x, j + 1, root * 2 + 1,
                  rem * 4 + (IF j < 13 THEN (x \div Pow2(24 - 2 * j)) % 4 ELSE 0)
                    - (root * 4 + 1))
    ELSE SqrtBits(x, j + 1, root * 2,
                  rem * 4 + (IF j < 13 THEN (x \div Pow2(24 - 2 * j)) % 4 ELSE 0))

SqrtRound(e, st) == RoundPack(0, st[1], (e \div 2) - 14, st[2] # 0)

SqrtNorm(na) ==
    IF na[3] % 2 # 0 THEN SqrtRound(na[3] - 1, SqrtBits(na[2] * 2, 0, 0, 0))
    ELSE SqrtRound(na[3], SqrtBits(na[2], 0, 0, 0))

\* sqrt(a), correctly rounded (the C code calls the double sqrt on a float and
\* stores the result in a float: the two roundings give the same float)
FSqrt(a) ==
    IF IsNaN(a) THEN NaN
    ELSE IF IsZero(a) THEN a
    ELSE IF a.s = 1 THEN NaN
    ELSE IF IsInf(a) THEN a
    ELSE SqrtNorm(Norm(a))

(***************************************************************************)
(* State.  The module keeps no state between calls; what is modelled is    *)
(* one call at a time: the buffers in linear memory that the host passed,  *)
(* the position in the running function and its locals.                    *)
(***************************************************************************)
VARIABLES
    pc,       \* position in the running call
    n,        \* the int length argument of the call (n, or m for arima_setParams)
    data,     \* the input buffer: a function 0..len-1 -> float
    result,   \* the output buffer: a function 0..cap-1 -> float
    loc,      \* the locals of the running function, and the sets of indices it accessed
    heap      \* the arena: outstanding allocations, start address -> size

vars == <<pc, n, data, result, loc, heap>>

\* bounds of the inputs
MaxVal == 2
DetMaxN == 3
AcfMaxN == 5
AcfMaxVal == 1
SetMaxBytes == 13
ArMaxN == 3
PacfMaxN == 3
PacfMaxVal == 1
HeapSize == 4
MaxSize == 2
MaxStreak == 2
MaxName == 2

\* the floats of the integers -MaxVal..MaxVal
IntVals == {IntToFloat(v) : v \in (0 - MaxVal)..MaxVal}

\* what the output buffer holds before a call: -77.0 everywhere
Stale == Lit(1, 77, 0)
StaleBuf(cap) == [i \in 0..(cap - 1) |-> Stale]

NoLoc == [f |-> "none"]

RECURSIVE FSumFrom(_, _, _, _)
\* acc += f[i] for i = lo..hi in order
FSumFrom(acc, f, lo, hi) ==
    IF lo > hi THEN acc ELSE FSumFrom(FAdd(acc, f[lo]), f, lo + 1, hi)

RECURSIVE FSubFrom(_, _, _, _)
\* acc -= f[i] for i = lo..hi in order
FSubFrom(acc, f, lo, hi) ==
    IF lo > hi THEN acc ELSE FSubFrom(FSub(acc, f[lo]), f, lo + 1, hi)

(***************************************************************************)
(* linear_detrend                                                          *)
(***************************************************************************)
\* x_var is the sum of squares, not divided by n
DetrendXVar(nn, x_mean) ==
    FSumFrom(Zero(0),
             [i \in 0..(nn - 1) |->
                FMul(FSub(IntToFloat(i), x_mean), FSub(IntToFloat(i), x_mean))],
             0, nn - 1)

\* the locals of linear_detrend(d, result, nn) when it returns
DetrendLocals(d, nn) ==
    LET I(i) == IntToFloat(i)
        x_mean == FDiv(FSumFrom(Zero(0), [i \in 0..(nn - 1) |-> I(i)], 0, nn - 1), I(nn))
        y_mean == FDiv(FSumFrom(Zero(0), [i \in 0..(nn - 1) |-> d[i]], 0, nn - 1), I(nn))
        xy_cov == FDiv(FSumFrom(Zero(0), [i \in 0..(nn - 1) |-> FMul(I(i), d[i])], 0, nn - 1),
                       I(nn))
        x_var == DetrendXVar(nn, x_mean)
        slope == FDiv(FSub(xy_cov, FMul(x_mean, y_mean)), x_var)
        intercept == FSub(y_mean, FMul(slope, x_mean))
    IN  [f |-> "linear_detrend", x_mean |-> x_mean, y_mean |-> y_mean, xy_cov |-> xy_cov,
         x_var |-> x_var, slope |-> slope, intercept |-> intercept]

\* the output buffer after linear_detrend(d, res, nn)
LinearDetrend(d, res, nn) ==
    LET l == DetrendLocals(d, nn)
    IN  [i \in DOMAIN res |->
           IF i < nn
           THEN FSub(d[i], FAdd(FMul(l.slope, IntToFloat(i)), l.intercept))
           ELSE res[i]]

InitDetrend ==
    /\ pc = "call"
    /\ n \in 1..DetMaxN
    /\ data \in [0..(n - 1) -> IntVals]
    /\ result = StaleBuf(n + 1)
    /\ loc = NoLoc
    /\ heap = <<>>

CallLinearDetrend ==
    /\ pc = "call"
    /\ result' = LinearDetrend(data, result, n)
    /\ loc' = DetrendLocals(data, n)
    /\ pc' = "done"
    /\ UNCHANGED <<n, data, heap>>

NextDetrend == CallLinearDetrend

SpecDetrend == InitDetrend /\ [][NextDetrend]_vars

\* value[i] = a*i + b for integers a, b
IsLinear(d, nn, a, b) == \A i \in 0..(nn - 1) : d[i] = IntToFloat(a * i + b)

\* the tolerance 1e-4 as a float
Tol1em4 == Lit(0, 13743895, 0 - 37)

\* C1: for a series of length n >= 2 that is exactly linear in its index,
\* linear_detrend leaves every result[i] within 1e-4 of 0: the slope it computes
\* is a and the intercept is b.
C1_DetrendLinearIsZero ==
    (pc = "done" /\ n >= 2) =>
        \A a, b \in (0 - MaxVal)..MaxVal :
            IsLinear(data, n, a, b) =>
                /\ \A i \in 0..(n - 1) : FLeq(FAbs(result[i]), Tol1em4)
                /\ FLeq(FAbs(FSub(loc.slope, IntToFloat(a))), Tol1em4)
                /\ FLeq(FAbs(FSub(loc.intercept, IntToFloat(b))), Tol1em4)

(***************************************************************************)
(* acf                                                                     *)
(***************************************************************************)
AcfMean(d, nn) ==
    FDiv(FSumFrom(Zero(0), [i \in 0..(nn - 1) |-> d[i]], 0, nn - 1), IntToFloat(nn))

\* var: the sum of squared deviations, divided by n
AcfVar(d, nn) ==
    LET mean == AcfMean(d, nn)
    IN  FDiv(FSumFrom(Zero(0),
                      [i \in 0..(nn - 1) |-> FMul(FSub(d[i], mean), FSub(d[i], mean))],
                      0, nn - 1),
             IntToFloat(nn))

\* result[i] as the lag loop stores it: ac / ((n - i) * var)
AcfLag(d, nn, i) ==
    LET mean == AcfMean(d, nn)
        ac == FSumFrom(Zero(0),
                       [j \in i..(nn - 1) |-> FMul(FSub(d[j], mean), FSub(d[j - i], mean))],
                       i, nn - 1)
    IN  FDiv(ac, FMul(IntToFloat(nn - i), AcfVar(d, nn)))

\* a faulty variant, for comparison: the first element is not halved
AcfAdjustFirst_Kept(r0) == r0

\* the adjustment of the first element: result[0] /= 2
AcfAdjustFirst(r0) == FDiv(r0, IntToFloat(2))

\* the output buffer after acf(d, res, nn)
Acf(d, res, nn) ==
    LET lagged == [i \in DOMAIN res |-> IF i < nn THEN AcfLag(d, nn, i) ELSE res[i]]
    IN  [lagged EXCEPT ![0] = AcfAdjustFirst(lagged[0])]

AcfVals == {IntToFloat(v) : v \in 0..AcfMaxVal}

InitAcf ==
    /\ pc = "call"
    /\ n \in 1..AcfMaxN
    /\ data \in [0..(n - 1) -> AcfVals]
    /\ result = StaleBuf(n + 1)
    /\ loc = NoLoc
    /\ heap = <<>>

CallAcf ==
    /\ pc = "call"
    /\ result' = Acf(data, result, n)
    /\ loc' = [f |-> "acf", mean |-> AcfMean(data, n), var |-> AcfVar(data, n)]
    /\ pc' = "done"
    /\ UNCHANGED <<n, data, heap>>

NextAcf == CallAcf

SpecAcf == InitAcf /\ [][NextAcf]_vars

Half == Lit(0, 1, 0 - 1)
\* 2^-24, one unit in the last place of 0.5
UlpHalf == Lit(0, 1, 0 - 24)

\* C3 as claimed: for every series with non-zero variance acf leaves
\* result[0] = 0.5 exactly.
C3_AcfLag0ExactlyHalf ==
    (pc = "done" /\ ~IsZero(loc.var)) => result[0] = Half

\* C3 as amended: for every series whose variance is non-zero (and is computed
\* without overflow or underflow) acf leaves result[0] within 2^-24 of 0.5:
\* the lag-0 sum is normalised to 1 up to the rounding of var = S/n, of n*var
\* and of S/(n*var), and is then halved.
C3_AcfLag0NearHalf ==
    (pc = "done" /\ ~IsZero(loc.var)) =>
        FLeq(FAbs(FSub(result[0], Half)), UlpHalf)

\* acf has run on a series with non-zero variance and left a result[0] that is
\* not 0.5
C3_Witness ==
    pc = "done" /\ ~IsZero(loc.var) /\ result[0] # Half /\ n = AcfMaxN

(***************************************************************************)
(* the one-step prediction pass shared by the two ARMA fits                *)
(***************************************************************************)
\* error = data[i] - mu - phi * data[i-1] - theta * (data[i-1] - mu)
ArmaError(d, i, mu, phi, theta) ==
    FSub(FSub(FSub(d[i], mu), FMul(phi, d[i - 1])), FMul(theta, FSub(d[i - 1], mu)))

\* prediction[i] = mu + phi * data[i-1] + theta * error
ArmaPredictAt(d, i, mu, phi, theta) ==
    FAdd(FAdd(mu, FMul(phi, d[i - 1])), FMul(theta, ArmaError(d, i, mu, phi, theta)))

\* the mean: mu += data[i] for i < nn, then mu /= nn
ArmaMean(d, nn) ==
    FDiv(FSumFrom(Zero(0), [i \in 0..(nn - 1) |-> d[i]], 0, nn - 1), IntToFloat(nn))

(***************************************************************************)
(* arima_setParams                                                         *)
(***************************************************************************)
SizeofFloat == 4

\* a faulty variant, for comparison: the element size taken as 8
SetParamsCount_Sizeof8(m) == m \div 8

\* int n = m / sizeof(data[0]), for a byte length m >= 0
SetParamsCount(m) == m \div SizeofFloat

\* the indices the prediction loop writes: for (i = 1; i < n; i++)
SetParamsWrites(m) == 1..(SetParamsCount(m) - 1)

\* float phi = 0.5, theta = 0.2
SetPhi == Lit(0, 1, 0 - 1)
SetTheta == Lit(0, 13421773, 0 - 26)

\* the output buffer after arima_setParams(d, pred, m)
ArimaSetParams(d, pred, m) ==
    LET nn == SetParamsCount(m)
        mu == ArmaMean(d, nn)
    IN  [i \in DOMAIN pred |->
           IF i \in SetParamsWrites(m)
           THEN ArmaPredictAt(d, i, mu, SetPhi, SetTheta)
           ELSE pred[i]]

\* the host passes a series of len floats with a byte length m = 4*len + slack
InitSetParams ==
    /\ pc = "call"
    /\ n \in 0..SetMaxBytes
    /\ data \in [0..((n \div 4) - 1) -> IntVals]
    /\ result = StaleBuf((n \div 4) + 2)
    /\ loc = NoLoc
    /\ heap = <<>>

CallArimaSetParams ==
    /\ pc = "call"
    /\ result' = ArimaSetParams(data, result, n)
    /\ loc' = [f |-> "arima_setParams", n |-> SetParamsCount(n),
               mu |-> ArmaMean(data, SetParamsCount(n)),
               phi |-> SetPhi, theta |-> SetTheta,
               wr |-> SetParamsWrites(n)]
    /\ pc' = "done"
    /\ UNCHANGED <<n, data, heap>>

NextSetParams == CallArimaSetParams

SpecSetParams == InitSetParams /\ [][NextSetParams]_vars

\* C8: arima_setParams called with byte length m takes n = m div 4, mu the mean
\* of data[0..n-1], phi = 0.5 and theta = 0.2, and writes prediction[i] for
\* exactly i = 1..n-1 in one pass; index 0 and every index >= m div 4 keep
\* what they held.
C8_SetParamsSinglePass ==
    pc = "done" =>
        /\ loc.n = n \div 4
        /\ loc.mu = FDiv(FSumFrom(Zero(0), data, 0, (n \div 4) - 1), IntToFloat(n \div 4))
        /\ loc.phi = Lit(0, 1, 0 - 1) /\ loc.theta = Lit(0, 13421773, 0 - 26)
        /\ loc.wr = 1..((n \div 4) - 1)
        /\ \A i \in DOMAIN result :
             IF 1 <= i /\ i <= (n \div 4) - 1
             THEN result[i] = ArmaPredictAt(data, i, loc.mu, loc.phi, loc.theta)
             ELSE result[i] = Stale

\* arima_setParams has returned from a call with at least three elements and a
\* byte length that is not a multiple of 4
C8_Witness ==
    pc = "done" /\ n \div 4 >= 3 /\ n % 4 # 0 /\ result[2] # Stale /\ result[0] = Stale

(***************************************************************************)
(* arima_autoParams                                                        *)
(***************************************************************************)
MAX_ITERATIONS == 1000
\* float TOLERANCE = 1e-6
TOLERANCE == Lit(0, 8796093, 0 - 43)
\* float phi = 0.3, theta = -0.2
AutoPhi0 == Lit(0, 5033165, 0 - 24)
AutoTheta0 == Lit(1, 13421773, 0 - 26)

\* one pass of the estimation loop body over i = 1..nn-1: the new phi and theta
ArimaUpdate(d, nn, mu, phi, theta) ==
    LET err == [i \in 1..(nn - 1) |-> ArmaError(d, i, mu, phi, theta)]
        sum_xy == FSumFrom(Zero(0), [i \in 1..(nn - 1) |-> FMul(d[i - 1], err[i])], 1, nn - 1)
        sum_x_sq == FSumFrom(Zero(0), [i \in 1..(nn - 1) |-> FMul(d[i - 1], d[i - 1])],
                             1, nn - 1)
        sum_error_sq == FSumFrom(Zero(0), [i \in 1..(nn - 1) |-> FMul(err[i], err[i])],
                                 1, nn - 1)
        newPhi == FDiv(sum_xy, sum_x_sq)
        newTheta == FDiv(FSub(sum_error_sq, FMul(newPhi, sum_xy)), IntToFloat(nn - 1))
    IN  [phi |-> newPhi, theta |-> newTheta]

\* diff_norm = sqrt(diff_phi * diff_phi + diff_theta * diff_theta)
DiffNorm(phi, theta, prev_phi, prev_theta) ==
    LET diff_phi == FSub(phi, prev_phi)
        diff_theta == FSub(theta, prev_theta)
    IN  FSqrt(FAdd(FMul(diff_phi, diff_phi), FMul(diff_theta, diff_theta)))

\* if (diff_norm < TOLERANCE) break
Converged(diff_norm) == FLess(diff_norm, TOLERANCE)

\* a faulty variant, for comparison: iteration <= MAX_ITERATIONS
LoopGoesOn_Inclusive(iteration) == iteration <= MAX_ITERATIONS

\* the loop condition: iteration < MAX_ITERATIONS
LoopGoesOn(iteration) == iteration < MAX_ITERATIONS

\* the indices the forecast loop writes: for (i = 1; i < n; i++)
AutoWrites(nn) == 1..(nn - 1)

\* a faulty variant, for comparison: the forecast stored one index too low, prediction[i-1]
ArimaForecast_Shifted(d, pred, nn, mu, phi, theta) ==
    [i \in DOMAIN pred |->
       IF i + 1 \in AutoWrites(nn) THEN ArmaPredictAt(d, i + 1, mu, phi, theta) ELSE pred[i]]

\* the prediction buffer after the forecast pass
ArimaForecast(d, pred, nn, mu, phi, theta) ==
    [i \in DOMAIN pred |->
       IF i \in AutoWrites(nn) THEN ArmaPredictAt(d, i, mu, phi, theta) ELSE pred[i]]

\* the input values of the fit: 1.0 and 3.0
ArVals == {IntToFloat(1), IntToFloat(3)}

InitArima ==
    /\ pc = "call"
    /\ n \in 0..ArMaxN
    /\ data \in [0..(n - 1) -> ArVals]
    /\ result = StaleBuf(n + 1)
    /\ loc = NoLoc
    /\ heap = <<>>

\* entry: the seeds, the mean, and the first test of the loop condition
ArimaEnter ==
    /\ pc = "call"
    /\ loc' = [f |-> "arima_autoParams", phi |-> AutoPhi0, theta |-> AutoTheta0,
               mu |-> ArmaMean(data, n), iteration |-> 0,
               bodies |-> 0, norm |-> NaN, broke |-> FALSE, wr |-> {},
               data0 |-> data]
    /\ pc' = IF LoopGoesOn(0) THEN "loop" ELSE "forecast"
    /\ UNCHANGED <<n, data, result, heap>>

\* one iteration of the estimation loop: the body, then either the break or
\* iteration++ and the test of the loop condition
ArimaIterate ==
    /\ pc = "loop"
    /\ LET u == ArimaUpdate(data, n, loc.mu, loc.phi, loc.theta)
           dn == DiffNorm(u.phi, u.theta, loc.phi, loc.theta)
       IN  /\ loc' = [loc EXCEPT !.phi = u.phi, !.theta = u.theta, !.norm = dn,
                                 !.bodies = @ + 1,
                                 !.broke = Converged(dn),
                                 !.iteration = IF Converged(dn) THEN @ ELSE @ + 1]
           /\ pc' = IF Converged(dn) THEN "forecast"
                    ELSE IF LoopGoesOn(loc.iteration + 1) THEN "loop" ELSE "forecast"
    /\ UNCHANGED <<n, data, result, heap>>

\* the forecast pass, and the return
ArimaPredict ==
    /\ pc = "forecast"
    /\ result' = ArimaForecast(data, result, n, loc.mu, loc.phi, loc.theta)
    /\ loc' = [loc EXCEPT !.wr = AutoWrites(n)]
    /\ pc' = "done"
    /\ UNCHANGED <<n, data, heap>>

NextArima == ArimaEnter \/ ArimaIterate \/ ArimaPredict

SpecArima == InitArima /\ [][NextArima]_vars

\* the loop of arima_autoParams runs at most 1000 bodies and leaves at the first
\* body whose diff_norm is below TOLERANCE, otherwise after exactly 1000
LoopBounded ==
    loc.f = "arima_autoParams" =>
        /\ loc.bodies <= MAX_ITERATIONS
        /\ (pc = "loop" /\ loc.bodies > 0) => ~FLess(loc.norm, TOLERANCE)
        /\ pc \in {"forecast", "done"} =>
              \/ loc.broke /\ FLess(loc.norm, TOLERANCE)
              \/ ~loc.broke /\ loc.bodies = MAX_ITERATIONS

\* the number of steps the call can still take: one per remaining iteration of
\* the loop, one for the forecast pass
Rank ==
    IF pc = "call" THEN MAX_ITERATIONS + 2
    ELSE IF pc = "loop" THEN (MAX_ITERATIONS - loc.iteration) + 1
    ELSE IF pc = "forecast" THEN 1
    ELSE 0

\* short of the return, the call is at a point from which a step is taken
Runnable == pc \in {"call", "loop", "forecast", "done"} /\ (pc # "done" => Rank > 0)

\* C4: the estimation loop runs at most 1000 bodies: it leaves at the first
\* body whose diff_norm is below TOLERANCE, otherwise after exactly 1000; and
\* the call always returns: it is never stuck short of the return and every
\* step lowers Rank, which is never negative.
C4_AtMostMaxIterations ==
    /\ [](LoopBounded /\ Runnable /\ Rank >= 0)
    /\ [][Rank' < Rank]_vars

\* a call that used up all 1000 iterations without converging has returned
C4_Witness ==
    pc = "done" /\ ~loc.broke /\ loc.bodies = MAX_ITERATIONS /\ n >= 2 /\ ~IsNaN(loc.norm)

\* a call that converged before the budget ran out has returned
C4_WitnessConverged ==
    pc = "done" /\ loc.broke /\ loc.bodies < MAX_ITERATIONS

\* C6: arima_autoParams writes the forecast buffer at exactly the indices
\* 1..n-1, each with mu + phi*data[i-1] + theta*error[i] for the final phi and
\* theta; index 0 and every index >= n keep what they held, and the input
\* buffer is unchanged.
C6_ForecastFrame ==
    pc = "done" =>
        /\ loc.wr = 1..(n - 1)
        /\ \A i \in DOMAIN result :
             IF 1 <= i /\ i <= n - 1
             THEN result[i] =
                    FAdd(FAdd(loc.mu, FMul(loc.phi, data[i - 1])),
                         FMul(loc.theta, ArmaError(data, i, loc.mu, loc.phi, loc.theta)))
             ELSE result[i] = Stale
        /\ data = loc.data0

\* a call with n = ArMaxN has returned with its forecasts written
C6_Witness ==
    pc = "done" /\ n = ArMaxN /\ result[0] = Stale /\ result[n - 1] # Stale

(***************************************************************************)
(* pacf                                                                    *)
(*                                                                         *)
(* r, phi and aic are variable-length arrays of n floats on the stack.     *)
(* The coefficient loop reads r[i-k-1] with i = k, that is r[-1]: a read   *)
(* before the start of r.  What it yields is whatever the build placed     *)
(* there; the model draws it anew from Garbage at every such read.         *)
(***************************************************************************)
\* what a read outside r may yield: 0.0, 1.0 or a NaN bit pattern
Garbage == {Zero(0), IntToFloat(1), NaN}

\* r[idx], with g standing for what lies outside r
RAt(r, nn, idx, g) == IF idx \in 0..(nn - 1) THEN r[idx] ELSE g

\* the inner residual of the coefficient loop:
\* y = r[i]; for (j = 0; j < k; j++) y -= phi[j] * r[i-j-1]
PacfY(r, phi, nn, k, i, g) ==
    FSubFrom(r[i], [j \in 0..(k - 1) |-> FMul(phi[j], RAt(r, nn, i - j - 1, g))], 0, k - 1)

\* the index of r that num += r[i-k-1] * y reads
NumIndex(i, k) == i - k - 1

\* phi[k]: num / den, or 0.0 when den == 0.0
PacfPhi(r, phi, nn, k, g) ==
    LET y == [i \in k..(nn - 1) |-> PacfY(r, phi, nn, k, i, g)]
        num == FSumFrom(Zero(0),
                        [i \in k..(nn - 1) |-> FMul(RAt(r, nn, NumIndex(i, k), g), y[i])],
                        k, nn - 1)
        den == FSumFrom(Zero(0), [i \in k..(nn - 1) |-> FMul(y[i], y[i])], k, nn - 1)
    IN  IF FEq(den, Zero(0)) THEN Zero(0) ELSE FDiv(num, den)

\* pacf_result[k] = phi[k]; for (j = 0; j < k; j++) pacf_result[k] -= phi[j] * pacf_result[k-j-1]
PacfResultAt(phi, res, k) ==
    FSubFrom(phi[k], [j \in 0..(k - 1) |-> FMul(phi[j], res[k - j - 1])], 0, k - 1)

\* rss of the model of order m = k + 1
PacfRss(r, phi, nn, k) ==
    LET m == k + 1
        y == [i \in m..(nn - 1) |->
                FSubFrom(r[i], [j \in 1..m |-> FMul(phi[j - 1], r[i - j])], 1, m)]
    IN  FSumFrom(Zero(0), [i \in m..(nn - 1) |-> FMul(y[i], y[i])], m, nn - 1)

(***************************************************************************)
(* aic_val = log(rss/n) + 2.0 * m / n.  The logarithm is not computed: a    *)
(* score is kept as the pair of q = rss/n (a float) and m, and two scores  *)
(* are compared through q: log(qa) + 2*ma/n < log(qb) + 2*mb/n exactly     *)
(* when qa * exp(2*(ma-mb)/n) < qb.  log(0) is -infinity, log(+inf) is     *)
(* +infinity, log(NaN) is NaN.  exp is bracketed by fixed-point bounds;    *)
(* a comparison that falls between the bounds (where the rounding of the   *)
(* score to a float decides) may come out either way.                      *)
(***************************************************************************)
AicScore(rss, nn, k) == [q |-> FDiv(rss, IntToFloat(nn)), m |-> k + 1]

\* float min_aic = INFINITY
AicInfinity == [q |-> Inf(0), m |-> 0]

AicClass(a) ==
    IF IsNaN(a.q) THEN "nan"
    ELSE IF IsZero(a.q) THEN "ninf"
    ELSE IF IsInf(a.q) THEN "pinf"
    ELSE "fin"

ExpScale == 8192

RECURSIVE ExpTerms(_, _, _, _)
\* the sum of the terms t_j = t_(j-1) * x / j, j = k..16, of exp(x), x = num/den,
\* in units of 1/ExpScale, each term rounded down
ExpTerms(t, num, den, k) ==
    IF k > 16 \/ t = 0 THEN 0
    ELSE LET tk == (t * num) \div (den * k)
         IN  tk + ExpTerms(tk, num, den, k + 1)

\* ExpLo(d, nn) / ExpScale <= exp(2*d/nn) <= ExpHi(d, nn) / ExpScale, for 0 <= d <= nn
ExpLo(d, nn) == ExpScale + ExpTerms(ExpScale, 2 * d, nn, 1)
ExpHi(d, nn) == ExpLo(d, nn) + 32

\* the possible outcomes of aic a < aic b for two finite scores
FinLess(a, b, nn) ==
    LET d == IF a.m >= b.m THEN a.m - b.m ELSE b.m - a.m
        x == IF a.m >= b.m THEN a.q ELSE b.q   \* the side multiplied by exp(2*d/nn)
        z == FMul(IF a.m >= b.m THEN b.q ELSE a.q, IntToFloat(ExpScale))
        xlo == FMul(x, IntToFloat(ExpLo(d, nn)))
        xhi == FMul(x, IntToFloat(ExpHi(d, nn)))
    IN  IF a.m >= b.m
        THEN (IF FLess(xhi, z) THEN {TRUE} ELSE IF FLess(z, xlo) THEN {FALSE}
              ELSE {TRUE, FALSE})
        ELSE (IF FLess(z, xlo) THEN {TRUE} ELSE IF FLess(xhi, z) THEN {FALSE}
              ELSE {TRUE, FALSE})

\* the possible outcomes of the float comparison aic a < aic b
AicLess(a, b, nn) ==
    LET ca == AicClass(a)
        cb == AicClass(b)
    IN  IF ca = "nan" \/ cb = "nan" THEN {FALSE}
        ELSE IF ca = "ninf" THEN {cb # "ninf"}
        ELSE IF ca = "pinf" THEN {FALSE}
        ELSE IF cb = "ninf" THEN {FALSE}
        ELSE IF cb = "pinf" THEN {TRUE}
        ELSE FinLess(a, b, nn)

\* a <= b for certain: neither is NaN and b < a is impossible
AicLeq(a, b, nn) ==
    AicClass(a) # "nan" /\ AicClass(b) # "nan" /\ AicLess(b, a, nn) = {FALSE}

\* the indices of r that the coefficient loop of order k reads
CoefRReads(k, nn) ==
    UNION {{i} \cup {i - j - 1 : j \in 0..(k - 1)} \cup {NumIndex(i, k)} : i \in k..(nn - 1)}

\* the indices of r that the rss loop of order k reads
RssRReads(k, nn) ==
    UNION {{i} \cup {i - j : j \in 1..(k + 1)} : i \in (k + 1)..(nn - 1)}

\* the indices of phi read before phi[k] is stored, and after
PhiReadsBefore(k, nn) == 0..(k - 1)
PhiReadsAfter(k, nn, withRss) ==
    0..k \cup (IF withRss /\ k + 1 <= nn - 1 THEN {j - 1 : j \in 1..(k + 1)} ELSE {})

\* the indices of pacf_result read or written at order k
ResAccess(k) == {k} \cup {k - j - 1 : j \in 0..(k - 1)}

\* a faulty variant, for comparison: the second pass runs over every order, k < n
SecondGoesOn_All(k, max_lag, nn) == k < nn

\* the loop conditions of the two passes
ExploreGoesOn(k, nn) == k < nn
SecondGoesOn(k, max_lag, nn) == k <= max_lag

\* float r[n], phi[n], aic[n]: n floats each, not initialised
Uninit(nn) == [i \in 0..(nn - 1) |-> Stale]

PacfVals == {IntToFloat(v) : v \in 0..PacfMaxVal}

InitPacf ==
    /\ pc = "call"
    /\ n \in 1..PacfMaxN
    /\ data \in [0..(n - 1) -> PacfVals]
    /\ result = StaleBuf(n + 1)
    /\ loc = NoLoc
    /\ heap = <<>>

\* entry: r[i] = x[i], min_aic = INFINITY, max_lag = 0, and the first test of k < n
PacfEnter ==
    /\ pc = "call"
    /\ loc' = [f |-> "pacf", r |-> [i \in 0..(n - 1) |-> data[i]],
               phi |-> Uninit(n), aic |-> [i \in 0..(n - 1) |-> AicInfinity],
               min_aic |-> AicInfinity, max_lag |-> 0, k |-> 0,
               rIdx |-> 0..(n - 1), phiIdx |-> {}, aicIdx |-> {}, resIdx |-> {},
               phiW |-> {}, phiEarly |-> FALSE, wr2 |-> {},
               phi1 |-> Uninit(n), res1 |-> result]
    /\ pc' = IF ExploreGoesOn(0, n) THEN "explore" ELSE "second"
    /\ UNCHANGED <<n, data, result, heap>>

\* one order k of the exploratory pass: phi[k], pacf_result[k], aic[k], and the
\* update of min_aic and max_lag
PacfExplore ==
    /\ pc = "explore"
    /\ \E g \in Garbage :
         LET k == loc.k
             phi2 == [loc.phi EXCEPT ![k] = PacfPhi(loc.r, loc.phi, n, k, g)]
             res2 == [result EXCEPT ![k] = PacfResultAt(phi2, result, k)]
             aic_val == AicScore(PacfRss(loc.r, phi2, n, k), n, k)
             last == ~ExploreGoesOn(k + 1, n)
         IN  \E lt \in AicLess(aic_val, loc.min_aic, n) :
               /\ result' = res2
               /\ loc' = [loc EXCEPT
                            !.phi = phi2,
                            !.aic = [@ EXCEPT ![k] = aic_val],
                            !.min_aic = IF lt THEN aic_val ELSE @,
                            !.max_lag = IF lt THEN k ELSE @,
                            !.k = IF last THEN 0 ELSE k + 1,
                            !.rIdx = @ \cup CoefRReads(k, n) \cup RssRReads(k, n),
                            !.phiIdx = @ \cup PhiReadsBefore(k, n)
                                         \cup PhiReadsAfter(k, n, TRUE),
                            !.phiEarly = @ \/ ~(PhiReadsBefore(k, n) \subseteq loc.phiW),
                            !.phiW = @ \cup {k},
                            !.aicIdx = @ \cup {k},
                            !.resIdx = @ \cup ResAccess(k),
                            !.phi1 = IF last THEN phi2 ELSE @,
                            !.res1 = IF last THEN res2 ELSE @]
               /\ pc' = IF last THEN "second" ELSE "explore"
    /\ UNCHANGED <<n, data, heap>>

\* one order k of the second pass: phi[k] and pacf_result[k] again
PacfSecond ==
    /\ pc = "second"
    /\ \E g \in Garbage :
         LET k == loc.k
             phi2 == [loc.phi EXCEPT ![k] = PacfPhi(loc.r, loc.phi, n, k, g)]
             res2 == [result EXCEPT ![k] = PacfResultAt(phi2, result, k)]
         IN  /\ result' = res2
             /\ loc' = [loc EXCEPT
                          !.phi = phi2,
                          !.k = k + 1,
                          !.rIdx = @ \cup CoefRReads(k, n),
                          !.phiIdx = @ \cup PhiReadsBefore(k, n)
                                       \cup PhiReadsAfter(k, n, FALSE),
                          !.phiEarly = @ \/ ~(PhiReadsBefore(k, n) \subseteq loc.phiW),
                          !.phiW = @ \cup {k},
                          !.resIdx = @ \cup ResAccess(k),
                          !.wr2 = @ \cup {k}]
             /\ pc' = IF SecondGoesOn(k + 1, loc.max_lag, n) THEN "second" ELSE "done"
    /\ UNCHANGED <<n, data, heap>>

NextPacf == PacfEnter \/ PacfExplore \/ PacfSecond

SpecPacf == InitPacf /\ [][NextPacf]_vars

\* C2: when the exploratory pass has finished, the AIC score of the selected
\* max_lag is less than or equal to the AIC score of every candidate order.
C2_MaxLagMinimisesAic ==
    (loc.f = "pacf" /\ pc \in {"second", "done"}) =>
        \A k \in 0..(n - 1) : AicLeq(loc.aic[loc.max_lag], loc.aic[k], n)

\* C7: the second pass writes pacf_result only at 0..max_lag; every entry at
\* an index k, max_lag < k <= n-1, holds what the exploratory pass wrote there.
C7_SecondPassFrame ==
    (loc.f = "pacf" /\ pc \in {"second", "done"}) =>
        /\ loc.wr2 \subseteq 0..loc.max_lag
        /\ \A k \in 0..(n - 1) : k > loc.max_lag => result[k] = loc.res1[k]
        /\ pc = "done" => loc.wr2 = 0..loc.max_lag

\* pacf has returned from a call in which entries beyond max_lag exist
C7_Witness ==
    loc.f = "pacf" /\ pc = "done" /\ loc.max_lag < n - 1 /\ result[n - 1] # Stale

\* C9: every index pacf uses on r, phi, aic and pacf_result is in 0..n-1, and
\* every phi[j] it reads was written earlier in the call.
C9_PacfIndicesInRange ==
    loc.f = "pacf" =>
        /\ loc.rIdx \subseteq 0..(n - 1)
        /\ loc.phiIdx \subseteq 0..(n - 1)
        /\ loc.aicIdx \subseteq 0..(n - 1)
        /\ loc.resIdx \subseteq 0..(n - 1)
        /\ ~loc.phiEarly

\* C10: the second pass recomputes, for every k in 0..max_lag, the phi[k] and
\* pacf_result[k] that the exploratory pass stored: the result buffer after the
\* second pass is the result buffer after the first.
C10_SecondPassIdempotent ==
    (loc.f = "pacf" /\ pc = "done") =>
        /\ \A k \in 0..loc.max_lag : loc.phi[k] = loc.phi1[k]
        /\ result = loc.res1

(***************************************************************************)
(* createMem / destroy                                                     *)
(*                                                                         *)
(* The arena is HeapSize bytes at the addresses 1..HeapSize; 0 is the null *)
(* pointer.  heap maps the start address of every outstanding block to its *)
(* size.                                                                   *)
(***************************************************************************)
Null == 0

\* the bytes of the block at address a
Block(h, a) == a..(a + (IF h[a] = 0 THEN 1 ELSE h[a]) - 1)

\* malloc(size): a block of size bytes (one byte for size 0) that overlaps no
\* outstanding block, or the null pointer; a negative int is a huge size_t
Malloc(h, size) ==
    {Null} \cup
    (IF size < 0 THEN {}
     ELSE {a \in 1..HeapSize :
             /\ a + (IF size = 0 THEN 1 ELSE size) - 1 <= HeapSize
             /\ \A b \in DOMAIN h :
                  a..(a + (IF size = 0 THEN 1 ELSE size) - 1) \cap Block(h, b) = {}})

\* free(p): the block at p is returned; free(NULL) does nothing
Free(h, p) == [a \in DOMAIN h \ {p} |-> h[a]]

\* uint8_t* createMem(int size) { return malloc(size); }: the possible returns
CreateMem(h, size) == Malloc(h, size)

\* a faulty variant, for comparison: destroy does not release the block
Destroy_Leaks(h, p) == h

\* void destroy(uint8_t* p) { free(p); }: the heap afterwards
Destroy(h, p) == Free(h, p)

InitMem ==
    /\ pc = "idle"
    /\ n = 0
    /\ data = <<>>
    /\ result = <<>>
    /\ heap = <<>>
    /\ loc = [f |-> "host", op |-> "none", ret |-> Null, before |-> <<>>,
              base |-> <<>>, streak |-> 0]

\* the host calls createMem(size)
HostCreateMem ==
    /\ pc = "idle"
    /\ \E size \in (0 - 1)..MaxSize :
         \E p \in CreateMem(heap, size) :
           /\ heap' = IF p = Null THEN heap ELSE [a \in DOMAIN heap \cup {p} |->
                                                   IF a = p THEN size ELSE heap[a]]
           /\ loc' = [loc EXCEPT !.op = "create", !.ret = p, !.before = heap,
                                 !.base = IF loc.op = "pair" THEN @ ELSE heap,
                                 !.streak = IF loc.op = "pair" THEN @ ELSE 0]
    /\ UNCHANGED <<pc, n, data, result>>

\* the host calls destroy(p) on the handle createMem has just returned
HostDestroyReturned ==
    /\ pc = "idle"
    /\ loc.op = "create"
    /\ loc.streak < MaxStreak
    /\ heap' = Destroy(heap, loc.ret)
    /\ loc' = [loc EXCEPT !.op = "pair", !.streak = @ + 1]
    /\ UNCHANGED <<pc, n, data, result>>

\* the host calls destroy(p) on an older outstanding handle
HostDestroyOther ==
    /\ pc = "idle"
    /\ \E p \in DOMAIN heap :
         /\ ~(loc.op = "create" /\ p = loc.ret)
         /\ heap' = Destroy(heap, p)
         /\ loc' = [loc EXCEPT !.op = "destroy", !.ret = p, !.streak = 0]
    /\ UNCHANGED <<pc, n, data, result>>

NextMem == HostCreateMem \/ HostDestroyReturned \/ HostDestroyOther

SpecMem == InitMem /\ [][NextMem]_vars

\* C5: after a run of createMem calls, each immediately followed by destroy of
\* the handle it returned, the outstanding allocations are those before the
\* run; and destroy removes exactly the handle it is given.
C5_NoNetGrowth ==
    /\ (loc.op = "pair" /\ loc.streak > 0) =>
          /\ heap = loc.base
          /\ loc.ret \notin DOMAIN heap
          /\ \A a \in DOMAIN loc.before : a \in DOMAIN heap /\ heap[a] = loc.before[a]
    /\ loc.op = "destroy" => loc.ret \notin DOMAIN heap

\* two create/destroy pairs in a row have run on a heap that holds a block, the
\* second having allocated a block
C5_Witness ==
    loc.op = "pair" /\ loc.streak = MaxStreak /\ loc.ret # Null /\ DOMAIN heap # {}

(***************************************************************************)
(* compile.js: POST /compile                                               *)
(*                                                                         *)
(* Two requests run on the one event loop.  Every asynchronous operation   *)
(* (the upload, each emcc child process, the open of the write stream,     *)
(* each archive entry, the finalize and close, the open and the send of    *)
(* the download, the unlink) is one step; steps of the two requests        *)
(* interleave freely.  Files are modelled by whose data they hold:         *)
(*   data   - uploadDir: file name -> the request whose upload it holds    *)
(*   result - outputDir: file name -> the request whose source it was      *)
(*            compiled from (0: no such file)                              *)
(*   heap   - the inodes of compiled_files.zip: inode -> sequence of       *)
(*            chunks; loc.zip is the inode the path names (0: none)        *)
(***************************************************************************)
Requests == {1, 2}
Names == 1..MaxName
NoFile == 0

\* a chunk of a zip stream: an entry for file name nm holding the output
\* compiled from request src's upload; the central directory written by
\* finalize; a hole left by a write past the end of a truncated file
Entry(nm, src) == [kind |-> "entry", name |-> nm, src |-> src]
Directory(r) == [kind |-> "dir", name |-> 0, src |-> r]
Hole == [kind |-> "hole", name |-> 0, src |-> 0]

\* multer's diskStorage: every upload is stored as uploadDir/originalname
StoreUploads(dir, r, files) == [f \in Names |-> IF f \in files THEN r ELSE dir[f]]

\* emcc uploadDir/f -o outputDir/f.js: the output holds what the source held
CompileTo(out, dir, f) == [out EXCEPT ![f] = dir[f]]

\* the path every request uses: path.join(outputDir, 'compiled_files.zip')
ZipFilePath(r) == "compiled_files.zip"

\* fs.createWriteStream(zipFilePath): open with O_WRONLY | O_CREAT | O_TRUNC.
\* The inode the path names is emptied, or a new inode r is made.
OpenTrunc(inodes, zip, r) ==
    IF zip = NoFile
    THEN [inodes EXCEPT ![r] = <<>>]
    ELSE [inodes EXCEPT ![zip] = <<>>]

RECURSIVE Holes(_)
Holes(k) == IF k <= 0 THEN <<>> ELSE <<Hole>> \o Holes(k - 1)

\* a write of chunk c at position p (from 0) of a file
WriteAt(content, p, c) ==
    IF p < Len(content)
    THEN [content EXCEPT ![p + 1] = c]
    ELSE content \o Holes(p - Len(content)) \o <<c>>

\* the least name of a non-empty set: archive entries go in upload order
MinName(S) == CHOOSE f \in S : \A g \in S : f <= g

RECURSIVE ZipOf(_, _)
\* the zip that holds exactly the outputs of request r's own files
ZipOf(r, files) ==
    IF files = {} THEN <<Directory(r)>>
    ELSE <<Entry(MinName(files), r)>> \o ZipOf(r, files \ {MinName(files)})

InitCompile ==
    /\ pc = [r \in Requests |-> "upload"]
    /\ n = 0
    /\ data = [f \in Names |-> NoFile]
    /\ result = [f \in Names |-> NoFile]
    /\ heap = [i \in Requests |-> <<>>]
    /\ \E fs \in [Requests -> (SUBSET Names) \ {{}}] :
         loc = [f |-> "compile", files |-> fs,
                todo |-> [r \in Requests |-> {}],
                zip |-> NoFile,
                wfd |-> [r \in Requests |-> NoFile],
                pos |-> [r \in Requests |-> 0],
                rfd |-> [r \in Requests |-> NoFile],
                got |-> [r \in Requests |-> <<>>],
                failed |-> [r \in Requests |-> FALSE],
                removedInUse |-> FALSE,
                truncatedInUse |-> FALSE]

\* upload.array('files'): the files of request r are stored, then the handler
\* starts one emcc child process per file
Upload(r) ==
    /\ pc[r] = "upload"
    /\ data' = StoreUploads(data, r, loc.files[r])
    /\ loc' = [loc EXCEPT !.todo[r] = loc.files[r]]
    /\ pc' = [pc EXCEPT ![r] = "compiling"]
    /\ UNCHANGED <<n, result, heap>>

\* one child process of request r runs and calls resolve(outputFilePath); the
\* last one settles Promise.all
Compile(r) ==
    /\ pc[r] = "compiling"
    /\ \E f \in loc.todo[r] :
         /\ result' = CompileTo(result, data, f)
         /\ loc' = [loc EXCEPT !.todo[r] = @ \ {f}]
         /\ pc' = [pc EXCEPT ![r] = IF loc.todo[r] = {f} THEN "then" ELSE "compiling"]
    /\ UNCHANGED <<n, data, heap>>

\* the .then callback: the write stream is opened, the entries are queued
ZipOpen(r) ==
    /\ pc[r] = "then"
    /\ heap' = OpenTrunc(heap, loc.zip, r)
    /\ loc' = [loc EXCEPT !.zip = IF @ = NoFile THEN r ELSE @,
                          !.wfd[r] = IF loc.zip = NoFile THEN r ELSE loc.zip,
                          !.pos[r] = 0,
                          !.todo[r] = loc.files[r],
                          !.truncatedInUse =
                             @ \/ \E o \in Requests \ {r} :
                                    /\ loc.zip # NoFile
                                    /\ \/ pc[o] \in {"zipping", "closed"} /\ loc.wfd[o] = loc.zip
                                       \/ pc[o] = "sending" /\ loc.rfd[o] = loc.zip]
    /\ pc' = [pc EXCEPT ![r] = "zipping"]
    /\ UNCHANGED <<n, data, result>>

\* archiver reads the next queued output file and writes its entry
ZipAppend(r) ==
    /\ pc[r] = "zipping"
    /\ loc.todo[r] # {}
    /\ heap' = [heap EXCEPT ![loc.wfd[r]] =
                  WriteAt(@, loc.pos[r], Entry(MinName(loc.todo[r]), result[MinName(loc.todo[r])]))]
    /\ loc' = [loc EXCEPT !.todo[r] = @ \ {MinName(loc.todo[r])}, !.pos[r] = @ + 1]
    /\ UNCHANGED <<pc, n, data, result>>

\* archive.finalize(): the central directory is written and the stream closes
ZipFinalize(r) ==
    /\ pc[r] = "zipping"
    /\ loc.todo[r] = {}
    /\ heap' = [heap EXCEPT ![loc.wfd[r]] = WriteAt(@, loc.pos[r], Directory(r))]
    /\ loc' = [loc EXCEPT !.pos[r] = @ + 1]
    /\ pc' = [pc EXCEPT ![r] = "closed"]
    /\ UNCHANGED <<n, data, result>>

\* outputZip 'close': res.download opens the path; a missing file is an error
\* passed to the callback, which goes on to the clean-up
DownloadOpen(r) ==
    /\ pc[r] = "closed"
    /\ loc' = [loc EXCEPT !.rfd[r] = loc.zip, !.failed[r] = (loc.zip = NoFile)]
    /\ pc' = [pc EXCEPT ![r] = IF loc.zip = NoFile THEN "cleanup" ELSE "sending"]
    /\ UNCHANGED <<n, data, result, heap>>

\* the file opened for the download is streamed to the client of r
DownloadSend(r) ==
    /\ pc[r] = "sending"
    /\ loc' = [loc EXCEPT !.got[r] = heap[loc.rfd[r]]]
    /\ pc' = [pc EXCEPT ![r] = "cleanup"]
    /\ UNCHANGED <<n, data, result, heap>>

\* fs.unlink(zipFilePath): the path is removed, whatever inode it names
Unlink(r) ==
    /\ pc[r] = "cleanup"
    /\ loc' = [loc EXCEPT !.zip = NoFile,
                          !.removedInUse =
                             @ \/ \E o \in Requests \ {r} :
                                    /\ loc.zip # NoFile
                                    /\ pc[o] \in {"zipping", "closed"}
                                    /\ loc.wfd[o] = loc.zip]
    /\ pc' = [pc EXCEPT ![r] = "finished"]
    /\ UNCHANGED <<n, data, result, heap>>

NextCompile ==
    \E r \in Requests :
      \/ Upload(r)
      \/ Compile(r)
      \/ ZipOpen(r)
      \/ ZipAppend(r)
      \/ ZipFinalize(r)
      \/ DownloadOpen(r)
      \/ DownloadSend(r)
      \/ Unlink(r)

SpecCompile == InitCompile /\ [][NextCompile]_vars

\* C11: for any interleaving of two overlapping POST /compile requests, each
\* client receives a zip holding exactly the compiled outputs of its own
\* request's files, and no request's clean-up (or open) removes or overwrites
\* the zip the other request is still writing or sending.
C11_ZipIsolation ==
    loc.f = "compile" =>
        /\ \A r \in Requests :
             pc[r] \in {"cleanup", "finished"} =>
                 ~loc.failed[r] /\ loc.got[r] = ZipOf(r, loc.files[r])
        /\ ~loc.removedInUse
        /\ ~loc.truncatedInUse

=============================================================================
